---- MODULE Spec2Model ----
(***************************************************************************)
(* A model of the weeklybeats track scrapers.                              *)
(*                                                                         *)
(*   weeklybeatswatcher.py : HTMLTrackParser, a streaming extractor driven *)
(*                           by html.parser events, and fetch_tracks.      *)
(*   trackscraper.py       : TrackListScraper, the whole-tree extractor,   *)
(*                           and its signature matching functions.         *)
(*                                                                         *)
(* Python strings are TLA+ strings, dicts are functions over the keys they *)
(* hold, lists and tuples are sequences, None is the value None.           *)
(***************************************************************************)
EXTENDS Integers, Sequences, FiniteSets, TLC

VARIABLES
    tracks,      \* HTMLTrackParser.tracks
    _opentags,   \* HTMLTrackParser._opentags: <<tag, attrs>> frames, outermost first
    _listitem,   \* HTMLTrackParser._listitem: None or the record in progress
    _itemdepth,  \* HTMLTrackParser._itemdepth
    ev,          \* the last event handed to the parser: <<kind, tag or text>>
    err,         \* the exception the last event raised, "none" when it returned
    markers,     \* history: the attrs of every marker element opened so far
    nopen,       \* history: non-ignored elements opened and not yet closed
    pc,          \* fetch_tracks: "feeding", "raised" or "returned"
    result,      \* fetch_tracks: the list returned to the caller
    m_in,        \* signature matching as a function: the implementation, the
                 \*   signature and the path (outermost first) it is applied to
    m_out,       \* None, or what the implementation answered
    page_i,      \* scrape_week_tracks: the loop variable i, 0 before the loop
    scraper_tracks, \* TrackListScraper.tracks
    requested,   \* history: the page parameter of every request made, in order
    added,       \* history: the number of records each requested page added
    wk,          \* scrape_week_tracks: "loop", "break", "returned" or "raised"
    caller_tracks, \* the list the caller hands to a batch function
    worker_tracks, \* the copies of its records the pool's processes work on
    site,        \* the track pages: what the request for each record's page gives
    batch,       \* None, or the batch function running and its mode
    bpc,         \* the batch function: "running", "returned" or "raised"
    handled,     \* history: the records get_track_description was called on
    chunk,       \* the pool's tasks: "pending", "done", "raised" or "received"
    seen,        \* history: <<field, text>> for every text event of the current
                 \*   record at which the open elements end with the field's signature
    calls,       \* history: how often each field's converter was called in the
                 \*   current record
    contents,    \* TrackListScraper.feed: the track elements of the document
    fed,         \* TrackListScraper.feed: the track elements the loop has passed
    fpc,         \* TrackListScraper.feed: "feeding", "returned" or "raised"
    loads,       \* check_new_comments: None, or its arguments tracks and record
    new_comments \* check_new_comments: None, or what the call gave

vars == <<tracks, _opentags, _listitem, _itemdepth, ev, err, markers, nopen, pc, result,
          m_in, m_out, page_i, scraper_tracks, requested, added, wk,
          caller_tracks, worker_tracks, site, batch, bpc, handled, chunk, seen, calls,
          contents, fed, fpc, loads, new_comments>>

fetch == <<tracks, _opentags, _listitem, _itemdepth, ev, err, markers, nopen, pc, result>>

matching == <<m_in, m_out>>

parser == <<tracks, _opentags, _listitem, _itemdepth>>

paging == <<page_i, scraper_tracks, requested, added, wk>>

enriching == <<caller_tracks, worker_tracks, site, batch, bpc, handled, chunk>>

repeats == <<seen, calls>>

treefeed == <<contents, fed, fpc>>

comparing == <<loads, new_comments>>

\* The state of the functions around the two extractors, and the history
\* only the documents with repeated texts keep.
around == <<paging, enriching, repeats, treefeed, comparing>>

----------------------------------------------------------------------------
(* Bounds of the model.                                                    *)

MaxDepth == 3       \* open elements at any time
MaxMarkers == 2     \* marker elements opened in one run
MaxPath == 4        \* elements of a path handed to a signature match

----------------------------------------------------------------------------
(* Python values.                                                          *)

None == [None |-> TRUE]

EmptyDict == <<>>

\* dict.get(key, default)
Get(d, key, default) == IF key \in DOMAIN d THEN d[key] ELSE default

\* Variant: d.setdefault(key, value)
DictSet_SetDefault(d, key, value) == d @@ (key :> value)

\* d[key] = value
DictSet(d, key, value) == (key :> value) @@ d

\* str.startswith(prefix)
StartsWith(s, prefix) ==
    /\ Len(s) >= Len(prefix)
    /\ SubSeq(s, 1, Len(prefix)) = prefix

Whitespace == {" ", "\t", "\n"}

Char(s, i) == SubSeq(s, i, i)

\* The index of the first character at or after i that is (ws = TRUE) or is
\* not (ws = FALSE) whitespace; Len(s) + 1 when there is none.
RECURSIVE Scan(_, _, _)
Scan(s, i, ws) ==
    IF i > Len(s) THEN Len(s) + 1
    ELSE IF (Char(s, i) \in Whitespace) = ws THEN i
    ELSE Scan(s, i + 1, ws)

\* str.split(): the maximal runs of non-whitespace characters, in order.
RECURSIVE SplitFrom(_, _)
SplitFrom(s, i) ==
    LET b == Scan(s, i, FALSE)
        e == Scan(s, b, TRUE)
    IN  IF b > Len(s) THEN <<>>
        ELSE <<SubSeq(s, b, e - 1)>> \o SplitFrom(s, e)

Split(s) == SplitFrom(s, 1)

\* str.strip()
RECURSIVE RStrip(_)
RStrip(s) ==
    IF Len(s) > 0 /\ Char(s, Len(s)) \in Whitespace
    THEN RStrip(SubSeq(s, 1, Len(s) - 1))
    ELSE s

Strip(s) == LET b == Scan(s, 1, FALSE) IN RStrip(SubSeq(s, b, Len(s)))

Digits == <<"0", "1", "2", "3", "4", "5", "6", "7", "8", "9">>

IsDigit(c) == \E d \in 1..10 : Digits[d] = c

DigitVal(c) == (CHOOSE d \in 1..10 : Digits[d] = c) - 1

RECURSIVE AllDigits(_)
AllDigits(s) == Len(s) = 0 \/ (IsDigit(Char(s, 1)) /\ AllDigits(SubSeq(s, 2, Len(s))))

RECURSIVE DigitsVal(_)
DigitsVal(s) ==
    IF Len(s) = 0 THEN 0
    ELSE 10 * DigitsVal(SubSeq(s, 1, Len(s) - 1)) + DigitVal(Char(s, Len(s)))

\* int(s) accepts surrounding whitespace, one optional sign and decimal digits.
IntBody(s) ==
    LET t == Strip(s)
    IN  IF Len(t) > 0 /\ Char(t, 1) \in {"+", "-"} THEN SubSeq(t, 2, Len(t)) ELSE t

IntOk(s) == Len(IntBody(s)) > 0 /\ AllDigits(IntBody(s))

Int_(s) ==
    LET t == Strip(s)
    IN  IF Char(t, 1) = "-" THEN 0 - DigitsVal(IntBody(s)) ELSE DigitsVal(IntBody(s))

----------------------------------------------------------------------------------------------------------------------------------------
(* The events a document can produce.                                      *)

Class(class) == "class" :> class

ClassId(class, id) == ("class" :> class) @@ ("id" :> id)

\* Elements of the documents that exercise the record boundaries: markers
\* with and without an id, a plain div, the elements of the comments
\* signature and an element of the ignore list.
StructElements ==
    { <<"div", ClassId("main-item", "t1")>>,
      <<"div", ClassId("main-item odd", "t2")>>,
      <<"div", Class("main-item")>>,
      <<"div", EmptyDict>>,
      <<"li", Class("info-replies")>>,
      <<"strong", EmptyDict>>,
      <<"input", EmptyDict>> }

\* Elements of the documents that exercise the title and week signatures.
TextElements ==
    { <<"div", ClassId("main-item", "t1")>>,
      <<"div", Class("item-subject")>>,
      <<"h3", EmptyDict>>,
      <<"a", EmptyDict>>,
      <<"li", Class("info-views")>>,
      <<"strong", EmptyDict>> }

TagsOf(elements) == { e[1] : e \in elements }

Texts == { "My Song", "Week 3", "5" }

----------------------------------------------------------------------------
(* HTMLTrackParser                                                         *)

_depth(opentags) == Len(opentags)

\* Variant: an empty ignore list.
_to_be_ignored_Nothing(tag) == FALSE

_to_be_ignored(tag) == tag \in {"input"}

\* The test of line 29: a div whose class starts with "main-item".
IsMarker(tag, attrs) == tag = "div" /\ StartsWith(Get(attrs, "class", ""), "main-item")

\* Variant: a marker that opens inside an open record replaces the record.
StartOutcome_Replace(tag, attrs) ==
    LET pushed == Append(_opentags, <<tag, attrs>>)
        same == [opentags |-> pushed, listitem |-> _listitem, itemdepth |-> _itemdepth]
    IN  IF ~IsMarker(tag, attrs) THEN same @@ [err |-> "none"]
        ELSE IF "id" \notin DOMAIN attrs THEN same @@ [err |-> "KeyError: id"]
        ELSE [opentags |-> pushed,
              listitem |-> "id" :> attrs["id"],
              itemdepth |-> _depth(pushed),
              err |-> "none"]

\* Variant: the id is read with attrs.get("id").
StartOutcome_GetId(tag, attrs) ==
    LET pushed == Append(_opentags, <<tag, attrs>>)
        same == [opentags |-> pushed, listitem |-> _listitem, itemdepth |-> _itemdepth]
    IN  IF ~IsMarker(tag, attrs) THEN same @@ [err |-> "none"]
        ELSE IF _listitem # None THEN same @@ [err |-> "ValueError: Unclosed track list item"]
        ELSE [opentags |-> pushed,
              listitem |-> "id" :> Get(attrs, "id", None),
              itemdepth |-> _depth(pushed),
              err |-> "none"]

\* Variant: the marker's depth is not recorded.
StartOutcome_NoDepth(tag, attrs) ==
    LET pushed == Append(_opentags, <<tag, attrs>>)
        same == [opentags |-> pushed, listitem |-> _listitem, itemdepth |-> _itemdepth]
    IN  IF ~IsMarker(tag, attrs) THEN same @@ [err |-> "none"]
        ELSE IF _listitem # None THEN same @@ [err |-> "ValueError: Unclosed track list item"]
        ELSE IF "id" \notin DOMAIN attrs THEN same @@ [err |-> "KeyError: id"]
        ELSE [opentags |-> pushed,
              listitem |-> "id" :> attrs["id"],
              itemdepth |-> _itemdepth,
              err |-> "none"]

\* handle_starttag past the ignore test: the parser state it leaves and the
\* exception it raises. The frame is pushed before anything can raise.
StartOutcome(tag, attrs) ==
    LET pushed == Append(_opentags, <<tag, attrs>>)
        same == [opentags |-> pushed, listitem |-> _listitem, itemdepth |-> _itemdepth]
    IN  IF ~IsMarker(tag, attrs) THEN same @@ [err |-> "none"]
        ELSE IF _listitem # None THEN same @@ [err |-> "ValueError: Unclosed track list item"]
        ELSE IF "id" \notin DOMAIN attrs THEN same @@ [err |-> "KeyError: id"]
        ELSE [opentags |-> pushed,
              listitem |-> "id" :> attrs["id"],
              itemdepth |-> _depth(pushed),
              err |-> "none"]

handle_starttag(tag, attrs) ==
    /\ ev' = <<"start", tag>>
    /\ tracks' = tracks
    /\ IF _to_be_ignored(tag)
       THEN err' = "none" /\ UNCHANGED <<_opentags, _listitem, _itemdepth>>
       ELSE LET o == StartOutcome(tag, attrs)
            IN  /\ _opentags' = o.opentags
                /\ _listitem' = o.listitem
                /\ _itemdepth' = o.itemdepth
                /\ err' = o.err

\* Variant: only the empty stack is a mismatch.
Mismatch_DepthOnly(opentags, tag) == _depth(opentags) = 0

\* The test of line 41: nothing is open, or the innermost open element has
\* another name.
Mismatch(opentags, tag) == _depth(opentags) = 0 \/ tag # opentags[Len(opentags)][1]

\* Variant: at or below the marker's depth.
BelowItem_AtOrBelow(opentags, itemdepth) == _depth(opentags) <= itemdepth

\* Variant: the depth before the pop is compared.
BelowItem_BeforePop(opentags, itemdepth) == _depth(opentags) + 1 < itemdepth

\* The test of line 44, evaluated after the pop.
BelowItem(opentags, itemdepth) == _depth(opentags) < itemdepth

handle_endtag(tag) ==
    /\ ev' = <<"end", tag>>
    /\ IF _to_be_ignored(tag)
       THEN err' = "none" /\ UNCHANGED parser
       ELSE IF Mismatch(_opentags, tag)
       THEN err' = "ValueError: Mismatch tag" /\ UNCHANGED parser
       ELSE LET popped == SubSeq(_opentags, 1, Len(_opentags) - 1)
            IN  /\ err' = "none"
                /\ _opentags' = popped
                /\ IF BelowItem(popped, _itemdepth)
                   THEN /\ tracks' = Append(tracks, _listitem)
                        /\ _listitem' = None
                        /\ _itemdepth' = 0
                   ELSE UNCHANGED <<tracks, _listitem, _itemdepth>>

\* The signatures dict of handle_data, in its iteration order.
SignatureNames == <<"title", "week", "comments">>

\* Variant: the week signature starts at the marker element.
signatures_MarkerStep ==
    [ title    |-> << <<"div", Class("item-subject")>>, <<"h3", EmptyDict>>, <<"a", EmptyDict>> >>,
      week     |-> << <<"div", Class("main-item")>>, <<"strong", EmptyDict>> >>,
      comments |-> << <<"li", Class("info-replies")>>, <<"strong", EmptyDict>> >> ]

signatures ==
    [ title    |-> << <<"div", Class("item-subject")>>, <<"h3", EmptyDict>>, <<"a", EmptyDict>> >>,
      week     |-> << <<"li", Class("info-views")>>, <<"strong", EmptyDict>> >>,
      comments |-> << <<"li", Class("info-replies")>>, <<"strong", EmptyDict>> >> ]

\* The keys of a dict as the sequence a for loop visits.
RECURSIVE Keys(_)
Keys(d) ==
    IF DOMAIN d = {} THEN <<>>
    ELSE LET k == CHOOSE x \in DOMAIN d : TRUE
         IN  <<k>> \o Keys([x \in DOMAIN d \ {k} |-> d[x]])

\* The inner for loop of handle_data over the attributes of one step:
\* FALSE when it breaks, TRUE when it runs to its else branch.
RECURSIVE AttrLoop(_, _, _)
AttrLoop(tag, test, attrs) ==
    IF attrs = <<>> THEN TRUE
    ELSE LET attr == Head(attrs)
         IN  IF attr \notin DOMAIN tag[2] \/ tag[2][attr] # test[2][attr]
             THEN FALSE
             ELSE AttrLoop(tag, test, Tail(attrs))

\* Variant: a required value is met by any one of the frame's
\* whitespace-separated tokens.
StepTest_Tokens(tag, test) ==
    /\ test[1] = tag[1]
    /\ \A attr \in DOMAIN test[2] :
          /\ attr \in DOMAIN tag[2]
          /\ \E i \in 1..Len(Split(tag[2][attr])) : Split(tag[2][attr])[i] = test[2][attr]

\* The body of the zip loop: does the frame pass the step?
StepTest(tag, test) ==
    IF test[1] # tag[1] THEN FALSE ELSE AttrLoop(tag, test, Keys(test[2]))

\* Variant: self._opentags[:n]
LastN_FirstN(seq, n) == IF n >= Len(seq) THEN seq ELSE SubSeq(seq, 1, n)

\* self._opentags[-n:]
LastN(seq, n) == IF n >= Len(seq) THEN seq ELSE SubSeq(seq, Len(seq) - n + 1, Len(seq))

\* zip(a, b) pairs the first min(len(a), len(b)) items; the loop breaks at
\* the first pair that fails and reaches its else branch when none does.
RECURSIVE ZipLoop(_, _)
ZipLoop(frames, conditions) ==
    IF frames = <<>> \/ conditions = <<>> THEN TRUE
    ELSE IF ~StepTest(Head(frames), Head(conditions)) THEN FALSE
    ELSE ZipLoop(Tail(frames), Tail(conditions))

\* Variant: the steps before the last are looked for among the ancestors,
\* outward from the parent, passing over ancestors that fail the step.
RECURSIVE SkipWalk(_, _, _)
SkipWalk(opentags, conditions, i) ==
    IF conditions = <<>> THEN TRUE
    ELSE IF i = 0 THEN FALSE
    ELSE IF StepTest(opentags[i], conditions[Len(conditions)])
    THEN SkipWalk(opentags, SubSeq(conditions, 1, Len(conditions) - 1), i - 1)
    ELSE SkipWalk(opentags, conditions, i - 1)

SignatureHit_Skip(opentags, conditions) ==
    /\ opentags # <<>>
    /\ StepTest(opentags[Len(opentags)], conditions[Len(conditions)])
    /\ SkipWalk(opentags, SubSeq(conditions, 1, Len(conditions) - 1), Len(opentags) - 1)

SignatureHit(opentags, conditions) ==
    ZipLoop(LastN(opentags, Len(conditions)), conditions)

\* converters.get(thing, str)(data): the value, or the exception raised.
Convert(thing, data) ==
    IF thing = "week"
    THEN IF Len(Split(data)) < 2 THEN [err |-> "IndexError", value |-> None]
         ELSE IF ~IntOk(Split(data)[2]) THEN [err |-> "ValueError: int", value |-> None]
         ELSE [err |-> "none", value |-> Int_(Split(data)[2])]
    ELSE IF thing = "comments"
    THEN IF ~IntOk(data) THEN [err |-> "ValueError: int", value |-> None]
         ELSE [err |-> "none", value |-> Int_(data)]
    ELSE [err |-> "none", value |-> data]

\* The for loop over signatures.items(): the record it leaves and the
\* exception that ended it.
RECURSIVE DataLoop(_, _, _, _)
DataLoop(things, opentags, item, data) ==
    IF things = <<>> THEN [listitem |-> item, err |-> "none"]
    ELSE LET thing == Head(things)
             c == Convert(thing, data)
         IN  IF ~SignatureHit(opentags, signatures[thing])
             THEN DataLoop(Tail(things), opentags, item, data)
             ELSE IF c.err # "none" THEN [listitem |-> item, err |-> c.err]
             ELSE DataLoop(Tail(things), opentags, DictSet(item, thing, c.value), data)

\* Variant: the record sealed last is still the one text is written to.
handle_data_SealedAlias(data) ==
    /\ ev' = <<"data", data>>
    /\ UNCHANGED <<_opentags, _itemdepth>>
    /\ IF _listitem # None
       THEN LET o == DataLoop(SignatureNames, _opentags, _listitem, data)
            IN  err' = o.err /\ _listitem' = o.listitem /\ tracks' = tracks
       ELSE IF tracks = <<>>
       THEN err' = "none" /\ UNCHANGED <<_listitem, tracks>>
       ELSE LET o == DataLoop(SignatureNames, _opentags, tracks[Len(tracks)], data)
            IN  /\ err' = o.err
                /\ _listitem' = _listitem
                /\ tracks' = [tracks EXCEPT ![Len(tracks)] = o.listitem]

\* Variant: without the test of line 51, text outside a record starts one.
handle_data_NoIdleTest(data) ==
    /\ ev' = <<"data", data>>
    /\ UNCHANGED <<tracks, _opentags, _itemdepth>>
    /\ LET o == DataLoop(SignatureNames, _opentags,
                         IF _listitem = None THEN EmptyDict ELSE _listitem, data)
       IN  /\ err' = o.err
           /\ _listitem' = IF _listitem = None /\ o.listitem = EmptyDict THEN None
                           ELSE o.listitem

handle_data(data) ==
    /\ ev' = <<"data", data>>
    /\ UNCHANGED <<tracks, _opentags, _itemdepth>>
    /\ IF _listitem = None
       THEN err' = "none" /\ _listitem' = _listitem
       ELSE LET o == DataLoop(SignatureNames, _opentags, _listitem, data)
            IN  err' = o.err /\ _listitem' = o.listitem

----------------------------------------------------------------------------
(* The history of a run, kept beside the parser: which marker elements    *)
(* the document opened, and how many elements stand open in it.            *)

IgnoreList == {"input"}

Opens(tag, attrs) ==
    /\ markers' = IF tag = "div" /\ tag \notin IgnoreList /\ IsMarker(tag, attrs)
                  THEN Append(markers, attrs)
                  ELSE markers
    /\ nopen' = IF tag \in IgnoreList THEN nopen ELSE nopen + 1

Closes(tag) ==
    /\ markers' = markers
    /\ nopen' = IF tag \in IgnoreList \/ err' # "none" THEN nopen ELSE nopen - 1

\* Does the frame pass the step: the names are equal and the frame has each
\* required attribute with exactly the required string.
ExactStep(frame, step) ==
    /\ frame[1] = step[1]
    /\ \A a \in DOMAIN step[2] : a \in DOMAIN frame[2] /\ frame[2][a] = step[2][a]

\* The innermost open elements are, directly nested, the steps of the
\* signature.
PathEndsWith(opentags, sig) ==
    /\ Len(opentags) >= Len(sig)
    /\ \A i \in 1..Len(sig) : ExactStep(opentags[Len(opentags) - Len(sig) + i], sig[i])

----------------------------------------------------------------------------
(* The parser driven event by event: any handler may be called at any     *)
(* time, also after a handler raised.                                      *)

InitParser ==
    /\ tracks = <<>>
    /\ _opentags = <<>>
    /\ _listitem = None
    /\ _itemdepth = 0
    /\ ev = <<"init", "">>
    /\ err = "none"
    /\ markers = <<>>
    /\ nopen = 0

NoMatching ==
    /\ m_in = None
    /\ m_out = None

\* No text event has been seen, no converter called.
NoRepeats ==
    /\ seen = <<>>
    /\ calls = [thing \in {"title", "week", "comments"} |-> 0]

\* scrape_week_tracks has not been called.
NoPaging ==
    /\ page_i = 0
    /\ scraper_tracks = <<>>
    /\ requested = <<>>
    /\ added = <<>>
    /\ wk = "loop"

\* No batch function has been called.
NoEnriching ==
    /\ caller_tracks = <<>>
    /\ worker_tracks = <<>>
    /\ site = <<>>
    /\ batch = None
    /\ bpc = "running"
    /\ handled = {}
    /\ chunk = <<>>

\* TrackListScraper.feed has not been called.
NoTreeFeed ==
    /\ contents = <<>>
    /\ fed = 0
    /\ fpc = "feeding"

\* check_new_comments has not been called.
NoComparing ==
    /\ loads = None
    /\ new_comments = None

NoAround ==
    /\ NoPaging
    /\ NoEnriching
    /\ NoRepeats
    /\ NoTreeFeed
    /\ NoComparing

Init ==
    /\ InitParser
    /\ pc = "feeding"
    /\ result = None
    /\ NoMatching
    /\ NoAround

\* The documents of the model: at most depth open elements, at most
\* nmarkers marker elements.
CanOpen(tag, attrs, depth, nmarkers) ==
    /\ tag \in IgnoreList \/ Len(_opentags) < depth
    /\ IsMarker(tag, attrs) => Len(markers) < nmarkers

StartTag ==
    \E e \in StructElements :
        /\ CanOpen(e[1], e[2], MaxDepth, MaxMarkers)
        /\ handle_starttag(e[1], e[2])
        /\ Opens(e[1], e[2])
        /\ UNCHANGED <<pc, result, matching, around>>

EndTag ==
    \E tag \in TagsOf(StructElements) :
        /\ handle_endtag(tag)
        /\ Closes(tag)
        /\ UNCHANGED <<pc, result, matching, around>>

Data ==
    \E data \in Texts :
        /\ handle_data(data)
        /\ UNCHANGED <<markers, nopen, pc, result, matching, around>>

Next == StartTag \/ EndTag \/ Data

Spec == Init /\ [][Next]_vars

----------------------------------------------------------------------------
(* fetch_tracks: feed() hands the events of one document to a fresh       *)
(* parser; an exception of a handler leaves feed() and fetch_tracks, the  *)
(* end of the input lets fetch_tracks return w.tracks.                     *)

Raised == IF err' # "none" THEN "raised" ELSE "feeding"

FeedStartTag ==
    /\ pc = "feeding"
    /\ \E e \in StructElements :
        /\ CanOpen(e[1], e[2], MaxDepth, MaxMarkers)
        /\ handle_starttag(e[1], e[2])
        /\ Opens(e[1], e[2])
    /\ pc' = Raised
    /\ UNCHANGED <<result, matching, around>>

FeedEndTag ==
    /\ pc = "feeding"
    /\ \E tag \in TagsOf(StructElements) :
        /\ handle_endtag(tag)
        /\ Closes(tag)
    /\ pc' = Raised
    /\ UNCHANGED <<result, matching, around>>

FeedData ==
    /\ pc = "feeding"
    /\ \E data \in Texts : handle_data(data)
    /\ pc' = Raised
    /\ UNCHANGED <<markers, nopen, result, matching, around>>

\* feed() returns at the end of the input and fetch_tracks returns w.tracks.
EndOfInput ==
    /\ pc = "feeding"
    /\ pc' = "returned"
    /\ result' = tracks
    /\ ev' = <<"eof", "">>
    /\ UNCHANGED <<tracks, _opentags, _listitem, _itemdepth, err, markers, nopen, matching, around>>

NextFetch == FeedStartTag \/ FeedEndTag \/ FeedData \/ EndOfInput

SpecFetch == Init /\ [][NextFetch]_vars

----------------------------------------------------------------------------
(* The parser over documents that carry title and week fields: every      *)
(* element lies inside a marker block, and the depth bound leaves room for *)
(* the three steps of the title signature below the marker.                *)

TextDepth == MaxDepth + 1

TextMarkers == MaxMarkers - 1

TextStartTag ==
    \E e \in TextElements :
        /\ CanOpen(e[1], e[2], TextDepth, TextMarkers)
        /\ IsMarker(e[1], e[2]) \/ _listitem # None
        /\ handle_starttag(e[1], e[2])
        /\ Opens(e[1], e[2])
        /\ UNCHANGED <<pc, result, matching, around>>

TextEndTag ==
    \E tag \in TagsOf(TextElements) :
        /\ handle_endtag(tag)
        /\ Closes(tag)
        /\ UNCHANGED <<pc, result, matching, around>>

TextData ==
    \E data \in Texts :
        /\ handle_data(data)
        /\ UNCHANGED <<markers, nopen, pc, result, matching, around>>

NextText == TextStartTag \/ TextEndTag \/ TextData

SpecText == Init /\ [][NextText]_vars

----------------------------------------------------------------------------
(* The parser fed documents in which the text of a field occurs more than  *)
(* once in a record, beside a history of the text events of the record.    *)
(* As in fetch_tracks, the first exception ends the feed.                  *)

MaxTexts == 3       \* matching text events in one record

RepeatElements ==
    { <<"div", ClassId("main-item", "t1")>>,
      <<"li", Class("info-views")>>,
      <<"li", Class("info-replies")>>,
      <<"strong", EmptyDict>> }

RepeatTexts == { "Week 3", "Week 12", "5" }

\* A marker element is open.
InRecord(opentags) ==
    \E k \in 1..Len(opentags) : IsMarker(opentags[k][1], opentags[k][2])

\* <<field, text>> for the fields whose signature the open elements end with.
RECURSIVE Matched(_, _, _)
Matched(things, opentags, data) ==
    IF things = <<>> THEN <<>>
    ELSE IF PathEndsWith(opentags, signatures[Head(things)])
    THEN <<<<Head(things), data>>>> \o Matched(Tail(things), opentags, data)
    ELSE Matched(Tail(things), opentags, data)

\* The fields for which the for loop of handle_data evaluates
\* converters.get(thing, str)(data), in order; a call that raises is the last.
RECURSIVE ConverterCalls(_, _, _)
ConverterCalls(things, opentags, data) ==
    IF things = <<>> THEN <<>>
    ELSE IF ~SignatureHit(opentags, signatures[Head(things)])
    THEN ConverterCalls(Tail(things), opentags, data)
    ELSE IF Convert(Head(things), data).err # "none" THEN <<Head(things)>>
    ELSE <<Head(things)>> \o ConverterCalls(Tail(things), opentags, data)

RECURSIVE Counted(_, _)
Counted(count, things) ==
    IF things = <<>> THEN count
    ELSE Counted([count EXCEPT ![Head(things)] = @ + 1], Tail(things))

\* The history starts anew with the marker that opens a record.
RepeatOpens(tag, attrs) ==
    IF IsMarker(tag, attrs) /\ ~InRecord(_opentags)
    THEN /\ seen' = <<>>
         /\ calls' = [thing \in DOMAIN calls |-> 0]
    ELSE UNCHANGED repeats

RepeatTexted(data) ==
    /\ seen' = IF InRecord(_opentags)
               THEN seen \o Matched(SignatureNames, _opentags, data)
               ELSE seen
    /\ calls' = IF _listitem = None THEN calls
                ELSE Counted(calls, ConverterCalls(SignatureNames, _opentags, data))

RepeatStartTag ==
    /\ pc = "feeding"
    /\ \E e \in RepeatElements :
        /\ CanOpen(e[1], e[2], MaxDepth, TextMarkers)
        /\ IsMarker(e[1], e[2]) \/ _listitem # None
        /\ handle_starttag(e[1], e[2])
        /\ Opens(e[1], e[2])
        /\ RepeatOpens(e[1], e[2])
    /\ pc' = Raised
    /\ UNCHANGED <<result, matching, paging, enriching, treefeed, comparing>>

RepeatEndTag ==
    /\ pc = "feeding"
    /\ \E tag \in TagsOf(RepeatElements) :
        /\ handle_endtag(tag)
        /\ Closes(tag)
    /\ pc' = Raised
    /\ UNCHANGED <<result, matching, around>>

RepeatData ==
    /\ pc = "feeding"
    /\ \E data \in RepeatTexts :
        /\ handle_data(data)
        /\ RepeatTexted(data)
        /\ Len(seen') <= MaxTexts
    /\ pc' = Raised
    /\ UNCHANGED <<markers, nopen, result, matching, paging, enriching, treefeed, comparing>>

NextRepeat == RepeatStartTag \/ RepeatEndTag \/ RepeatData

SpecRepeat == Init /\ [][NextRepeat]_vars

----------------------------------------------------------------------------
(* TrackListScraper: the signature matching of the whole-tree extractor.   *)

\* BeautifulSoup(contents, features="html.parser"): a Tag has a name and
\* attrs, and the class attribute is the list of its whitespace-separated
\* tokens.
BSTag(frame) ==
    [name |-> frame[1],
     attrs |-> [k \in DOMAIN frame[2] |->
                   IF k = "class" THEN Split(frame[2][k]) ELSE frame[2][k]]]

\* The BeautifulSoup object at the root of every tree.
BSRoot == [name |-> "[document]", attrs |-> EmptyDict]

Reverse(seq) == [i \in 1..Len(seq) |-> seq[Len(seq) + 1 - i]]

\* tag.parents of the innermost element of a path: the ancestors from the
\* parent outward, the root object last.
Parents(path) == Append([i \in 1..(Len(path) - 1) |-> BSTag(path[Len(path) - i])], BSRoot)

\* The signatures of TrackLinkScraper, in the order of the dict.
BSSignatureNames == <<"title", "url", "page", "artist">>

bs_signatures ==
    [ title  |-> << <<"div", "class" :> <<"item-subject">> >>, <<"h3", EmptyDict>>, <<"a", EmptyDict>> >>,
      url    |-> << <<"div", "class" :> <<"player-play", "play-list">> >> >>,
      page   |-> << <<"div", "class" :> <<"item-subject">> >>, <<"h3", EmptyDict>>, <<"a", EmptyDict>> >>,
      artist |-> << <<"p", EmptyDict>>, <<"span", "class" :> <<"item-starter">> >>, <<"cite", EmptyDict>> >> ]

\* The for loop of _signature_key_match over the attributes of the key.
RECURSIVE KeyAttrLoop(_, _, _)
KeyAttrLoop(tag, key, attrs) ==
    IF attrs = <<>> THEN TRUE
    ELSE LET attr == Head(attrs)
             value == key[2][attr]
         IN  IF attr \notin DOMAIN tag.attrs THEN FALSE
             ELSE IF value # <<>> /\ value # tag.attrs[attr] THEN FALSE
             ELSE KeyAttrLoop(tag, key, Tail(attrs))

_signature_key_match(tag, key) ==
    IF tag.name # key[1] THEN FALSE ELSE KeyAttrLoop(tag, key, Keys(key[2]))

\* The loop of signature_match over zip(tag.parents, sig[-2::-1]).
RECURSIVE ParentLoop(_, _)
ParentLoop(parents, keys) ==
    IF parents = <<>> \/ keys = <<>> THEN TRUE
    ELSE IF ~_signature_key_match(Head(parents), Head(keys)) THEN FALSE
    ELSE ParentLoop(Tail(parents), Tail(keys))

\* signature_match(tag), the tag given as the path that ends at it.
signature_match(path, sig) ==
    IF ~_signature_key_match(BSTag(path[Len(path)]), sig[Len(sig)]) THEN FALSE
    ELSE ParentLoop(Parents(path), Reverse(SubSeq(sig, 1, Len(sig) - 1)))

----------------------------------------------------------------------------
(* Signature matching as a function of a path: both implementations       *)
(* applied to paths of at most MaxPath elements.                           *)

MatchElements ==
    { <<"div", Class("item-subject")>>,
      <<"div", Class("item-subject extra")>>,
      <<"div", Class("player-play play-list")>>,
      <<"div", EmptyDict>>,
      <<"h3", EmptyDict>>,
      <<"a", EmptyDict>>,
      <<"li", Class("info-views")>>,
      <<"strong", EmptyDict>> }

RECURSIVE Paths(_)
Paths(n) ==
    IF n = 0 THEN {<<>>}
    ELSE LET shorter == Paths(n - 1)
         IN  shorter \cup { Append(p, e) : p \in { q \in shorter : Len(q) = n - 1 },
                                           e \in MatchElements }

Range(seq) == { seq[i] : i \in 1..Len(seq) }

\* The signature an input names.
SigOf(in) == IF in.impl = "watcher" THEN signatures[in.thing] ELSE bs_signatures[in.thing]

InitMatch ==
    /\ InitParser
    /\ pc = "feeding"
    /\ result = None
    /\ m_out = None
    /\ NoAround
    /\ \E path \in Paths(MaxPath) \ {<<>>} :
        \/ \E thing \in Range(SignatureNames) :
              m_in = [impl |-> "watcher", thing |-> thing, path |-> path]
        \/ \E thing \in Range(BSSignatureNames) :
              m_in = [impl |-> "scraper", thing |-> thing, path |-> path]

\* handle_data's test of one signature against the open elements, and its
\* test of each step against the innermost one.
MatchWatcher ==
    /\ m_out = None
    /\ m_in.impl = "watcher"
    /\ m_out' = [hit |-> SignatureHit(m_in.path, SigOf(m_in)),
                 steps |-> [i \in 1..Len(SigOf(m_in)) |->
                              StepTest(m_in.path[Len(m_in.path)], SigOf(m_in)[i])]]
    /\ UNCHANGED <<fetch, m_in, around>>

\* signature_match on the innermost element, and _signature_key_match of
\* that element against each step.
MatchScraper ==
    /\ m_out = None
    /\ m_in.impl = "scraper"
    /\ m_out' = [hit |-> signature_match(m_in.path, SigOf(m_in)),
                 steps |-> [i \in 1..Len(SigOf(m_in)) |->
                              _signature_key_match(BSTag(m_in.path[Len(m_in.path)]),
                                                   SigOf(m_in)[i])]]
    /\ UNCHANGED <<fetch, m_in, around>>

NextMatch == MatchWatcher \/ MatchScraper

SpecMatch == InitMatch /\ [][NextMatch]_vars

----------------------------------------------------------------------------
(* scrape_week_tracks: one TrackLinkScraper is fed the result pages of a   *)
(* week, one request per page.                                             *)

PageStop == 10      \* range(1, 10)

MaxNew == 2         \* track elements on one result page

\* range(1, 10)
PageRange == 1..(PageStop - 1)

\* The value scrape returns: len(self.tracks) > before.
scrape(before, after) == Len(after) > Len(before)

\* One pass of the for loop: the request for page i, the records feed
\* appends for the page's track elements, and the break. The request or
\* feed may raise, feed after it has appended the records of the track
\* elements before the faulty one; the exception leaves scrape_week_tracks.
ScrapePage ==
    /\ wk = "loop"
    /\ page_i + 1 \in PageRange
    /\ page_i' = page_i + 1
    /\ requested' = Append(requested, page_i')
    /\ \E n \in 0..MaxNew, raises \in BOOLEAN :
          /\ scraper_tracks' = scraper_tracks \o [k \in 1..n |-> <<page_i', k>>]
          /\ added' = Append(added, n)
          /\ wk' = IF raises THEN "raised"
                   ELSE IF scrape(scraper_tracks, scraper_tracks') THEN "loop"
                   ELSE "break"
    /\ UNCHANGED <<fetch, matching, enriching, repeats, treefeed, comparing>>

\* return scraper.tracks, after the break or when the range is used up.
ReturnTracks ==
    /\ wk = "break" \/ (wk = "loop" /\ page_i + 1 \notin PageRange)
    /\ wk' = "returned"
    /\ UNCHANGED <<fetch, matching, enriching, repeats, treefeed, comparing, page_i, scraper_tracks, requested, added>>

NextWeek == ScrapePage \/ ReturnTracks

SpecWeek == Init /\ [][NextWeek]_vars

----------------------------------------------------------------------------
(* TrackListScraper.feed on the documents of a result page: for every      *)
(* track element, every signature of TrackLinkScraper is looked up among   *)
(* the element's descendants.                                              *)

\* The track element itself.
TrackDiv == <<"div", ClassId("main-item", "t1")>>

\* What a track element can hold: two title links, the player button and
\* the artist line, each the path from the track element's child down to
\* the element that carries the value, and the text in it.
PartList ==
    << [path |-> << <<"div", Class("item-subject")>>, <<"h3", EmptyDict>>,
                    <<"a", "href" :> "/music/1">> >>,
        string |-> "My Song"],
       [path |-> << <<"div", Class("item-subject")>>, <<"h3", EmptyDict>>,
                    <<"a", "href" :> "/music/2">> >>,
        string |-> "Other"],
       [path |-> << <<"div", ("class" :> "player-play play-list")
                             @@ ("onclick" :> "setPlaylistItem('u1');")>> >>,
        string |-> None],
       [path |-> << <<"p", EmptyDict>>, <<"span", Class("item-starter")>>,
                    <<"cite", EmptyDict>> >>,
        string |-> "wangus"] >>

\* The track element that holds the parts numbered in chosen, in the order
\* of the document.
RECURSIVE Content(_, _)
Content(chosen, k) ==
    IF k > Len(PartList) THEN <<>>
    ELSE (IF k \in chosen THEN <<PartList[k]>> ELSE <<>>) \o Content(chosen, k + 1)

TrackContents == { Content(chosen, 1) : chosen \in SUBSET (1..Len(PartList)) }

\* The documents of at most n track elements.
RECURSIVE Documents(_)
Documents(n) ==
    IF n = 0 THEN {<<>>}
    ELSE LET shorter == Documents(n - 1)
         IN  shorter \cup { Append(d, t) : d \in { q \in shorter : Len(q) = n - 1 },
                                           t \in TrackContents }

\* The descendants of a track element in the order of the document, each
\* with its path from the track element. The string of an element whose
\* only child is an element is the string of that child.
RECURSIVE Descendants(_)
Descendants(content) ==
    IF content = <<>> THEN <<>>
    ELSE [j \in 1..Len(Head(content).path) |->
             [path |-> <<TrackDiv>> \o SubSeq(Head(content).path, 1, j),
              string |-> Head(content).string]]
         \o Descendants(Tail(content))

\* track_tag.find_all(self._signature_match_function(sig))
find_all(descendants, sig) ==
    SelectSeq(descendants, LAMBDA d : signature_match(d.path, sig))

\* str.split(sep) for a separator of one character; cur is the piece being
\* read.
RECURSIVE SplitOnFrom(_, _, _, _)
SplitOnFrom(s, sep, k, cur) ==
    IF k > Len(s) THEN <<cur>>
    ELSE IF Char(s, k) = sep THEN <<cur>> \o SplitOnFrom(s, sep, k + 1, "")
    ELSE SplitOnFrom(s, sep, k + 1, cur \o Char(s, k))

SplitOn(s, sep) == SplitOnFrom(s, sep, 1, "")

\* self.converters.get(thing, lambda t: t.string)(tag): extract_page_url,
\* extract_track_url or the string of the tag.
BSConvert(thing, d) ==
    LET attrs == d.path[Len(d.path)][2]
    IN  IF thing = "page"
        THEN IF "href" \notin DOMAIN attrs THEN [err |-> "KeyError: href", value |-> None]
             ELSE [err |-> "none", value |-> attrs["href"]]
        ELSE IF thing = "url"
        THEN IF "onclick" \notin DOMAIN attrs
             THEN [err |-> "KeyError: onclick", value |-> None]
             ELSE IF Len(SplitOn(attrs["onclick"], "'")) < 2
             THEN [err |-> "IndexError", value |-> None]
             ELSE [err |-> "none", value |-> SplitOn(attrs["onclick"], "'")[2]]
        ELSE [err |-> "none", value |-> d.string]

\* str(value), for a string or None
Str(value) == IF value \in STRING THEN value ELSE "None"

\* The loop over self.signatures.items() for one track element: the record
\* it builds and the exception that ended it. result[0] is read whatever
\* len(result) is.
RECURSIVE TrackLoop(_, _, _)
TrackLoop(things, descendants, track) ==
    IF things = <<>> THEN [track |-> track, err |-> "none"]
    ELSE LET thing == Head(things)
             found == find_all(descendants, bs_signatures[thing])
         IN  IF found = <<>> THEN [track |-> track, err |-> "IndexError"]
             ELSE IF BSConvert(thing, found[1]).err # "none"
             THEN [track |-> track, err |-> BSConvert(thing, found[1]).err]
             ELSE TrackLoop(Tail(things), descendants,
                            DictSet(track, thing, Str(BSConvert(thing, found[1]).value)))

\* feed(contents) is called on a document.
InitTreeFeed ==
    /\ InitParser
    /\ pc = "feeding"
    /\ result = None
    /\ NoMatching
    /\ NoPaging
    /\ NoEnriching
    /\ NoRepeats
    /\ NoComparing
    /\ fed = 0
    /\ fpc = "feeding"
    /\ contents \in Documents(MaxNew)

\* One pass of "for track_tag in track_tags".
FeedTrackTag ==
    /\ fpc = "feeding"
    /\ fed < Len(contents)
    /\ LET o == TrackLoop(BSSignatureNames, Descendants(contents[fed + 1]), EmptyDict)
       IN  IF o.err = "none"
           THEN /\ scraper_tracks' = Append(scraper_tracks, o.track)
                /\ fed' = fed + 1
                /\ fpc' = fpc
           ELSE /\ fpc' = "raised"
                /\ UNCHANGED <<scraper_tracks, fed>>
    /\ UNCHANGED <<fetch, matching, enriching, repeats, comparing, contents,
                   page_i, requested, added, wk>>

\* feed returns when the loop is used up.
FeedReturn ==
    /\ fpc = "feeding"
    /\ fed = Len(contents)
    /\ fpc' = "returned"
    /\ UNCHANGED <<fetch, matching, paging, enriching, repeats, comparing, contents, fed>>

NextTreeFeed == FeedTrackTag \/ FeedReturn

SpecTreeFeed == InitTreeFeed /\ [][NextTreeFeed]_vars

----------------------------------------------------------------------------
(* The batch functions: scrape_track_descriptions, sequential or with the  *)
(* pool of worker processes, and download_tracks.                          *)

MaxTracks == 3      \* records in the list handed to a batch function

ChunkSize == 2      \* imap_unordered(get_track_description, tracks, 2)

\* str.splitlines(): the lines of s, ended by "\n", "\r\n" or "\r"; cur is
\* the line being read.
RECURSIVE SplitLinesFrom(_, _, _)
SplitLinesFrom(s, k, cur) ==
    IF k > Len(s) THEN (IF cur = "" THEN <<>> ELSE <<cur>>)
    ELSE IF Char(s, k) = "\r" /\ k < Len(s) /\ Char(s, k + 1) = "\n"
    THEN <<cur>> \o SplitLinesFrom(s, k + 2, "")
    ELSE IF Char(s, k) \in {"\n", "\r"}
    THEN <<cur>> \o SplitLinesFrom(s, k + 1, "")
    ELSE SplitLinesFrom(s, k + 1, cur \o Char(s, k))

SplitLines(s) == SplitLinesFrom(s, 1, "")

\* sep.join(strings)
RECURSIVE Join(_, _)
Join(sep, strings) ==
    IF strings = <<>> THEN ""
    ELSE IF Len(strings) = 1 THEN strings[1]
    ELSE strings[1] \o sep \o Join(sep, Tail(strings))

\* "\n".join(unicodedata.normalize("NFKD", description).splitlines()), for
\* descriptions of ASCII characters, which NFKD leaves as they are.
Normalize(description) == Join("\n", SplitLines(description))

\* What the request for a track's page can give: a page with an
\* og:description, a page without one, or an exception of requests.get.
Pages ==
    { [kind |-> "ok", content |-> "one line"],
      [kind |-> "ok", content |-> "two\r\nlines\n"],
      [kind |-> "nometa", content |-> ""],
      [kind |-> "error", content |-> ""] }

\* The record of the k-th track of a list: its page and its file are named
\* by k.
TrackOf(k) == [page |-> k, url |-> k]

\* get_track_description(track) when the request gives page: the record it
\* leaves and the exception it raises. The IndexError of a page without an
\* og:description is caught and the function returns.
get_track_description(track, page) ==
    IF page.kind = "error" THEN [track |-> track, err |-> "ConnectionError"]
    ELSE IF page.kind = "nometa" THEN [track |-> track, err |-> "none"]
    ELSE [track |-> DictSet(track, "description", Normalize(page.content)), err |-> "none"]

\* The tasks of imap_unordered: chunk c holds the records
\* ChunkSize * (c - 1) + 1 .. ChunkSize * c of the list.
NChunks(n) == (n + ChunkSize - 1) \div ChunkSize

ChunkOf(c, n) == { k \in 1..n : (k + ChunkSize - 1) \div ChunkSize = c }

\* A worker process maps get_track_description over the records of one
\* chunk, in order, and stops at the first exception.
RECURSIVE RunChunk(_, _, _)
RunChunk(copies, todo, ran) ==
    IF todo = {} THEN [tracks |-> copies, handled |-> ran, err |-> "none"]
    ELSE LET k == CHOOSE x \in todo : \A y \in todo : x <= y
             o == get_track_description(copies[k], site[k])
             after == [copies EXCEPT ![k] = o.track]
         IN  IF o.err # "none"
             THEN [tracks |-> after, handled |-> ran \cup {k}, err |-> o.err]
             ELSE RunChunk(after, todo \ {k}, ran \cup {k})

Modes == {"sequential", "parallel", "download"}

\* The call of a batch function on a list of records. The records sent to
\* the pool's processes are pickled: the processes work on copies.
InitBatch ==
    /\ InitParser
    /\ pc = "feeding"
    /\ result = None
    /\ NoMatching
    /\ NoPaging
    /\ NoRepeats
    /\ NoTreeFeed
    /\ NoComparing
    /\ bpc = "running"
    /\ handled = {}
    /\ \E n \in 1..MaxTracks :
          /\ caller_tracks = [k \in 1..n |-> TrackOf(k)]
          /\ site \in [1..n -> Pages]
          /\ batch \in Modes
          /\ worker_tracks = IF batch = "parallel" THEN caller_tracks ELSE <<>>
          /\ chunk = IF batch = "parallel" THEN [c \in 1..NChunks(n) |-> "pending"] ELSE <<>>

\* scrape_track_descriptions(tracks): one pass of "for track in tracks".
SequentialNext ==
    /\ batch = "sequential"
    /\ bpc = "running"
    /\ LET k == Cardinality(handled) + 1
       IN  /\ k <= Len(caller_tracks)
           /\ LET o == get_track_description(caller_tracks[k], site[k])
              IN  /\ caller_tracks' = [caller_tracks EXCEPT ![k] = o.track]
                  /\ bpc' = IF o.err = "none" THEN "running" ELSE "raised"
           /\ handled' = handled \cup {k}
    /\ UNCHANGED <<fetch, matching, paging, repeats, treefeed, comparing, worker_tracks, site, batch, chunk>>

\* scrape_track_descriptions(tracks, parallel=True): a process of the pool
\* runs one chunk on its copies of the records. The chunks run in any order.
WorkerRun ==
    /\ batch = "parallel"
    /\ bpc = "running"
    /\ \E c \in 1..Len(chunk) :
          /\ chunk[c] = "pending"
          /\ LET o == RunChunk(worker_tracks, ChunkOf(c, Len(caller_tracks)), {})
             IN  /\ worker_tracks' = o.tracks
                 /\ handled' = handled \cup o.handled
                 /\ chunk' = [chunk EXCEPT ![c] = IF o.err = "none" THEN "done" ELSE "raised"]
    /\ UNCHANGED <<fetch, matching, paging, repeats, treefeed, comparing, caller_tracks, site, batch, bpc>>

\* The loop over imap_unordered receives the results of a finished chunk,
\* the None values get_track_description returned or the exception it
\* raised, which is raised again in the caller and leaves the function.
ParentReceive ==
    /\ batch = "parallel"
    /\ bpc = "running"
    /\ \E c \in 1..Len(chunk) :
          /\ chunk[c] \in {"done", "raised"}
          /\ bpc' = IF chunk[c] = "raised" THEN "raised" ELSE "running"
          /\ chunk' = [chunk EXCEPT ![c] = "received"]
    /\ UNCHANGED <<fetch, matching, paging, repeats, treefeed, comparing, caller_tracks, worker_tracks, site, batch, handled>>

\* download_tracks: one pass of its loop. download_track returns or raises
\* before it looks at the description (the download fails, the file does
\* not load, the file has lyrics), or calls get_track_description and reads
\* track["description"]; download_tracks catches every exception.
DownloadNext ==
    /\ batch = "download"
    /\ bpc = "running"
    /\ LET k == Cardinality(handled) + 1
       IN  /\ k <= Len(caller_tracks)
           /\ \E reload_description \in BOOLEAN :
                 caller_tracks' =
                     IF reload_description
                     THEN [caller_tracks EXCEPT
                              ![k] = get_track_description(caller_tracks[k], site[k]).track]
                     ELSE caller_tracks
           /\ handled' = handled \cup {k}
    /\ UNCHANGED <<fetch, matching, paging, repeats, treefeed, comparing, worker_tracks, site, batch, bpc, chunk>>

\* The batch function returns when its loop is used up.
BatchReturn ==
    /\ bpc = "running"
    /\ IF batch = "parallel"
       THEN \A c \in 1..Len(chunk) : chunk[c] = "received"
       ELSE Cardinality(handled) = Len(caller_tracks)
    /\ bpc' = "returned"
    /\ UNCHANGED <<fetch, matching, paging, repeats, treefeed, comparing, caller_tracks, worker_tracks, site, batch,
                   handled, chunk>>

NextBatch == SequentialNext \/ WorkerRun \/ ParentReceive \/ DownloadNext \/ BatchReturn

SpecBatch == InitBatch /\ [][NextBatch]_vars

----------------------------------------------------------------------------
(* check_new_comments as a function of the two track lists it is given.    *)

MaxRecords == 2     \* records in a track list

\* The records of the lists: two weeks, comment counts that differ and that
\* agree, a record without a comments field and a record without a week.
CompareRecords ==
    { ("week" :> 1) @@ ("comments" :> 0),
      ("week" :> 1) @@ ("comments" :> 2),
      ("week" :> 2) @@ ("comments" :> 2),
      "week" :> 2,
      "comments" :> 2 }

RECURSIVE TrackLists(_)
TrackLists(n) ==
    IF n = 0 THEN {<<>>}
    ELSE LET shorter == TrackLists(n - 1)
         IN  shorter \cup { Append(a, r) : a \in { q \in shorter : Len(q) = n - 1 },
                                           r \in CompareRecords }

\* week_indexed(a): {i["week"]: i for i in a}. A later record of a week
\* replaces an earlier one; a record without a week raises KeyError.
RECURSIVE week_indexed(_, _)
week_indexed(a, indexed) ==
    IF a = <<>> THEN [err |-> "none", value |-> indexed]
    ELSE IF "week" \notin DOMAIN Head(a) THEN [err |-> "KeyError: week", value |-> None]
    ELSE week_indexed(Tail(a), DictSet(indexed, Head(a)["week"], Head(a)))

\* The keys of week_indexed(a) in the order a for loop visits them: the
\* order in which the weeks first occur in a.
RECURSIVE WeekOrder(_, _)
WeekOrder(a, order) ==
    IF a = <<>> THEN order
    ELSE IF \E k \in 1..Len(order) : order[k] = Head(a)["week"]
    THEN WeekOrder(Tail(a), order)
    ELSE WeekOrder(Tail(a), Append(order, Head(a)["week"]))

\* Variant: the recorded count minus the current one.
new_comment_count_Reversed(current, recorded) == recorded - current

new_comment_count(current, recorded) == current - recorded

\* The for loop of check_new_comments over the weeks of tracks.
RECURSIVE CompareLoop(_, _, _, _)
CompareLoop(weeks, indexed_tracks, indexed_record, found) ==
    IF weeks = <<>> THEN [err |-> "none", value |-> found]
    ELSE LET week == Head(weeks)
         IN  IF week \notin DOMAIN indexed_record
             THEN CompareLoop(Tail(weeks), indexed_tracks, indexed_record, found)
             ELSE IF "comments" \notin DOMAIN indexed_tracks[week]
                     \/ "comments" \notin DOMAIN indexed_record[week]
             THEN [err |-> "KeyError: comments", value |-> None]
             ELSE LET count == new_comment_count(indexed_tracks[week]["comments"],
                                                 indexed_record[week]["comments"])
                  IN  CompareLoop(Tail(weeks), indexed_tracks, indexed_record,
                                  IF count # 0 THEN DictSet(found, week, count) ELSE found)

\* check_new_comments(tracks, record): the dict it returns or the exception
\* it raises.
check_new_comments(current, record) ==
    LET indexed_tracks == week_indexed(current, EmptyDict)
        indexed_record == week_indexed(record, EmptyDict)
    IN  IF indexed_tracks.err # "none" THEN indexed_tracks
        ELSE IF indexed_record.err # "none" THEN indexed_record
        ELSE CompareLoop(WeekOrder(current, <<>>), indexed_tracks.value,
                         indexed_record.value, EmptyDict)

InitCompare ==
    /\ InitParser
    /\ pc = "feeding"
    /\ result = None
    /\ NoMatching
    /\ NoPaging
    /\ NoEnriching
    /\ NoRepeats
    /\ NoTreeFeed
    /\ new_comments = None
    /\ \E current \in TrackLists(MaxRecords), record \in TrackLists(MaxRecords) :
          loads = [tracks |-> current, record |-> record]

Compare ==
    /\ new_comments = None
    /\ new_comments' = check_new_comments(loads.tracks, loads.record)
    /\ UNCHANGED <<fetch, matching, paging, enriching, repeats, treefeed, loads>>

NextCompare == Compare

SpecCompare == InitCompare /\ [][NextCompare]_vars

----------------------------------------------------------------------------
(* The claims about the streaming extractor.                               *)

Top(seq) == seq[Len(seq)]

Front(seq) == SubSeq(seq, 1, Len(seq) - 1)

\* C1: when fetch_tracks returns for a document whose elements are all
\* closed (no handler raised, nothing is left open), the returned list has
\* one record for every marker element of the document, in the order the
\* markers opened, each with the id of its own marker.
C1_OneRecordPerMarkerInOrder ==
    (pc = "returned" /\ nopen = 0) =>
        /\ Len(result) = Len(markers)
        /\ \A i \in 1..Len(markers) :
              /\ result[i] # None
              /\ "id" \in DOMAIN result[i]
              /\ result[i]["id"] = markers[i]["id"]

C1_Witness ==
    /\ pc = "returned"
    /\ nopen = 0
    /\ Len(result) = 2
    /\ result[1]["id"] = "t1"
    /\ result[2]["id"] = "t2"

\* C2: tracks grows only at the close event that pops the marker element of
\* the record in progress (the first close after which the depth is below
\* _itemdepth), that close seals the record and returns the parser to idle,
\* a close of an element nested in the marker seals nothing, and a close
\* while no record is open appends nothing.
C2_SealsAtMarkerClose ==
    [][ LET closing == ev'[1] = "end" /\ ev'[2] \notin IgnoreList
        IN  /\ tracks' # tracks =>
                  /\ closing
                  /\ err' = "none"
                  /\ _listitem # None
                  /\ Len(_opentags) = _itemdepth
                  /\ IsMarker(Top(_opentags)[1], Top(_opentags)[2])
                  /\ Top(_opentags)[2]["id"] = _listitem["id"]
                  /\ _opentags' = Front(_opentags)
                  /\ tracks' = Append(tracks, _listitem)
                  /\ _listitem' = None
                  /\ _itemdepth' = 0
            /\ (closing /\ err' = "none" /\ _listitem # None /\ Len(_opentags) = _itemdepth) =>
                  /\ tracks' = Append(tracks, _listitem)
                  /\ _listitem' = None
            /\ (closing /\ _listitem # None /\ Len(_opentags) > _itemdepth) =>
                  /\ tracks' = tracks
                  /\ _listitem' = _listitem
            /\ (closing /\ _listitem = None) =>
                  /\ tracks' = tracks
                  /\ _listitem' = None
      ]_vars

\* A record that took a field from an element nested in its marker has been
\* sealed by a close event.
C2_Witness ==
    /\ ev = <<"end", "div">>
    /\ err = "none"
    /\ _listitem = None
    /\ Len(tracks) = 1
    /\ "comments" \in DOMAIN tracks[1]

\* C3: a marker element that opens while a record is in progress makes the
\* open event raise, and the event leaves the record in progress, its depth
\* and the output as they were.
C3_NestedMarkerRaises ==
    [][ (markers' # markers /\ _listitem # None) =>
            /\ err' # "none"
            /\ _listitem' = _listitem
            /\ _itemdepth' = _itemdepth
            /\ tracks' = tracks
      ]_vars

C3_Witness ==
    /\ ev = <<"start", "div">>
    /\ err = "ValueError: Unclosed track list item"
    /\ _listitem # None
    /\ "comments" \in DOMAIN _listitem
    /\ Len(markers) = 2

\* C4: a close event for a name off the ignore list pops the stack if and
\* only if the stack is non-empty and its top frame has that name; otherwise
\* the event raises and leaves the stack, the record in progress and the
\* output unchanged.
C4_ClosePopsIffTopMatches ==
    [][ (ev'[1] = "end" /\ ev'[2] \notin IgnoreList) =>
            IF Len(_opentags) > 0 /\ Top(_opentags)[1] = ev'[2]
            THEN /\ err' = "none"
                 /\ _opentags' = Front(_opentags)
            ELSE /\ err' # "none"
                 /\ _opentags' = _opentags
                 /\ _listitem' = _listitem
                 /\ _itemdepth' = _itemdepth
                 /\ tracks' = tracks
      ]_vars

\* A close whose name differs from the innermost open element, inside a
\* record.
C4_Witness ==
    /\ ev = <<"end", "li">>
    /\ err = "ValueError: Mismatch tag"
    /\ _listitem # None
    /\ Len(_opentags) > 0
    /\ Top(_opentags)[1] = "strong"

\* C5: when the input ends while a record is in progress, fetch_tracks
\* fails instead of returning.
C5_EndOfInputInRecordFails ==
    (ev = <<"eof", "">> /\ _listitem # None) => pc = "raised"

\* C6: once a document has opened a marker element without an id, the open
\* event of that marker has raised, it opened no record, nothing follows it
\* and fetch_tracks hands no list to its caller.
C6_MarkerWithoutIdFails ==
    \A i \in 1..Len(markers) :
        "id" \notin DOMAIN markers[i] =>
            /\ i = Len(markers)
            /\ ev = <<"start", "div">>
            /\ Top(_opentags)[2] = markers[i]
            /\ pc = "raised"
            /\ result = None
            /\ \/ err = "KeyError: id" /\ _listitem = None /\ _itemdepth = 0
               \/ /\ err = "ValueError: Unclosed track list item"
                  /\ i > 1
                  /\ _listitem # None
                  /\ _listitem["id"] = markers[i - 1]["id"]
                  /\ _itemdepth < Len(_opentags)

\* The faulty marker follows a complete marker block.
C6_Witness ==
    /\ err = "KeyError: id"
    /\ pc = "raised"
    /\ Len(tracks) = 1
    /\ Len(markers) = 2
    /\ "id" \notin DOMAIN markers[2]

\* C7: the stack depth always equals the number of elements off the ignore
\* list that were opened and not yet closed; an open or close event of an
\* element on the ignore list changes nothing of the parser; and a record
\* seals at the close event that brings the number of open elements below
\* the depth of its marker.
C7_IgnoredElementsKeepDepth ==
    /\ [](Len(_opentags) = nopen)
    /\ [][ /\ (ev'[1] \in {"start", "end"} /\ ev'[2] \in IgnoreList) =>
                 /\ err' = "none"
                 /\ UNCHANGED parser
           /\ (ev'[1] = "end" /\ _listitem # None /\ nopen' < _itemdepth) =>
                 /\ tracks' = Append(tracks, _listitem)
                 /\ _listitem' = None
         ]_vars

\* An ignored element that never closes opened inside a record whose marker
\* is the innermost open element.
C7_Witness ==
    /\ ev = <<"start", "input">>
    /\ _listitem # None
    /\ Len(_opentags) = _itemdepth
    /\ nopen = _itemdepth

FieldKept(thing) ==
    /\ (thing \in DOMAIN _listitem') = (thing \in DOMAIN _listitem)
    /\ thing \in DOMAIN _listitem => _listitem'[thing] = _listitem[thing]

\* C8 as stated: a text event in a record whose innermost open elements are
\* the steps of a field's signature assigns that field the converted text,
\* and keeps every field whose signature the path does not satisfy.
C8_MatchingTextAssignsField ==
    [][ (ev'[1] = "data" /\ _listitem # None) =>
            \A thing \in Range(SignatureNames) :
                IF PathEndsWith(_opentags, signatures[thing])
                THEN /\ err' = "none"
                     /\ thing \in DOMAIN _listitem'
                     /\ Convert(thing, ev'[2]).err = "none"
                     /\ _listitem'[thing] = Convert(thing, ev'[2]).value
                ELSE FieldKept(thing)
      ]_vars

\* C8 amended: the field is assigned when its converter accepts the text;
\* when the converter raises, the event raises that exception and the
\* record keeps all its fields.
C8_MatchingTextAssignsConverted ==
    [][ (ev'[1] = "data" /\ _listitem # None) =>
            \A thing \in Range(SignatureNames) :
                IF ~PathEndsWith(_opentags, signatures[thing])
                THEN FieldKept(thing)
                ELSE IF Convert(thing, ev'[2]).err = "none"
                THEN /\ err' = "none"
                     /\ thing \in DOMAIN _listitem'
                     /\ _listitem'[thing] = Convert(thing, ev'[2]).value
                ELSE /\ err' = Convert(thing, ev'[2]).err
                     /\ _listitem' = _listitem
      ]_vars

C8_Witness ==
    /\ ev = <<"data", "My Song">>
    /\ err = "none"
    /\ _listitem # None
    /\ PathEndsWith(_opentags, signatures["title"])
    /\ Len(_opentags) = 4
    /\ "title" \in DOMAIN _listitem
    /\ _listitem["title"] = "My Song"

\* The record the history is about: the one in progress, or else the one
\* sealed last.
CurrentRecord ==
    IF _listitem # None THEN _listitem
    ELSE IF tracks # <<>> THEN Top(tracks)
    ELSE None

\* The texts of the current record's events that matched the field.
EventsOf(thing) == SelectSeq(seen, LAMBDA e : e[1] = thing)

\* Those of them the field's converter accepts.
AcceptedOf(thing) ==
    SelectSeq(EventsOf(thing), LAMBDA e : Convert(thing, e[2]).err = "none")

\* C14: the converter of a field has run once for every text event of the
\* record that matched the field's signature; the record holds, for every
\* field, the value converted from the last matching text event (a field no
\* event matched is absent), so that a later match overwrites the earlier
\* value and leaves the other fields alone; and a sealed record has had all
\* its matching texts converted.
C14_LastMatchingTextWins ==
    \A thing \in Range(SignatureNames) :
        LET events == EventsOf(thing)
            accepted == AcceptedOf(thing)
        IN  /\ calls[thing] = Len(events)
            /\ CurrentRecord # None =>
                  /\ IF accepted = <<>>
                     THEN thing \notin DOMAIN CurrentRecord
                     ELSE /\ thing \in DOMAIN CurrentRecord
                          /\ CurrentRecord[thing] = Convert(thing, Top(accepted)[2]).value
                  /\ (_listitem = None \/ err = "none") => accepted = events

\* A sealed record whose week text came twice, with different values, after
\* its comments text.
C14_Witness ==
    /\ _listitem = None
    /\ Len(tracks) = 1
    /\ seen = << <<"comments", "5">>, <<"week", "Week 3">>, <<"week", "Week 12">> >>
    /\ tracks[1]["week"] = 12
    /\ tracks[1]["comments"] = 5
    /\ calls["week"] = 2

\* C16: a record in the output is never changed: every event leaves the
\* records already in tracks as they are, in their places, and tracks
\* changes only by one record appended at its end.
C16_SealedRecordsImmutable ==
    [][ /\ Len(tracks') \in {Len(tracks), Len(tracks) + 1}
        /\ \A k \in 1..Len(tracks) : tracks'[k] = tracks[k]
      ]_vars

\* A text that matches the comments signature in the second marker block
\* has been assigned there, and the record of the first block, which has no
\* comments, is as it was sealed.
C16_Witness ==
    /\ Len(tracks) = 1
    /\ tracks[1] = "id" :> "t1"
    /\ _listitem = ("id" :> "t2") @@ ("comments" :> 5)
    /\ ev = <<"data", "5">>

\* C17: a text event leaves the stack, the marker depth and the output as
\* they are, and a text event while no record is open changes nothing of
\* the parser and raises nothing, whatever the open elements are.
C17_TextKeepsStructure ==
    [][ ev'[1] = "data" =>
            /\ UNCHANGED <<_opentags, _itemdepth, tracks>>
            /\ _listitem = None => (_listitem' = None /\ err' = "none")
      ]_vars

\* A convertible text outside any record, inside the elements of the
\* comments signature.
C17_Witness ==
    /\ ev = <<"data", "5">>
    /\ _listitem = None
    /\ markers = <<>>
    /\ tracks = <<>>
    /\ PathEndsWith(_opentags, signatures["comments"])

\* C19: after any events, those that raised included, a record is in
\* progress if and only if _itemdepth is above 0; while one is, _itemdepth
\* lies within the stack and the frame at that position is the marker
\* element that opened the record; and tracks holds no None.
C19_RecordIffMarkerDepth ==
    /\ (_listitem # None) = (_itemdepth > 0)
    /\ _listitem # None =>
          /\ 1 <= _itemdepth
          /\ _itemdepth <= Len(_opentags)
          /\ IsMarker(_opentags[_itemdepth][1], _opentags[_itemdepth][2])
          /\ _opentags[_itemdepth][2]["id"] = _listitem["id"]
    /\ \A k \in 1..Len(tracks) : tracks[k] # None

\* A close event has raised inside a record whose marker is not the
\* outermost element.
C19_Witness ==
    /\ err = "ValueError: Mismatch tag"
    /\ _listitem # None
    /\ _itemdepth = 2
    /\ Len(_opentags) = 3

\* C20: a text event in a record at which the stack holds fewer frames than
\* a signature has steps does not satisfy that signature and leaves its
\* field alone: the marker frame is among the frames compared and fails the
\* step it is paired with.
C20_ShortStackNeverMatches ==
    [][ (ev'[1] = "data" /\ _listitem # None) =>
            \A thing \in Range(SignatureNames) :
                Len(_opentags) < Len(signatures[thing]) =>
                    /\ FieldKept(thing)
                    /\ ~SignatureHit(_opentags, signatures[thing])
                    /\ \E k \in 1..Len(_opentags) :
                          /\ IsMarker(_opentags[k][1], _opentags[k][2])
                          /\ ~StepTest(_opentags[k], signatures[thing][k])
      ]_vars

\* A text in the last element of the title signature, directly in the
\* marker: two frames against three steps.
C20_Witness ==
    /\ ev = <<"data", "My Song">>
    /\ err = "none"
    /\ _listitem = "id" :> "t1"
    /\ Len(_opentags) = 2
    /\ Top(_opentags) = <<"a", EmptyDict>>

----------------------------------------------------------------------------
(* The claims about signature matching.                                    *)

\* Does the frame pass the step of the implementation: HTMLTrackParser
\* requires the same string, TrackListScraper the same list of class tokens
\* (an empty requirement asks for the attribute only).
ExactStepOf(impl, frame, step) ==
    /\ frame[1] = step[1]
    /\ \A a \in DOMAIN step[2] :
          /\ a \in DOMAIN frame[2]
          /\ IF impl = "watcher" THEN frame[2][a] = step[2][a]
             ELSE step[2][a] = <<>> \/ (a = "class" /\ step[2][a] = Split(frame[2][a]))

\* The tokens a requirement names.
Required(impl, value) == IF impl = "watcher" THEN {value} ELSE Range(value)

\* As the claim has it: exact equality, or the tokens of the frame's value
\* contain the required ones.
TokenStepOf(impl, frame, step) ==
    /\ frame[1] = step[1]
    /\ \A a \in DOMAIN step[2] :
          /\ a \in DOMAIN frame[2]
          /\ Required(impl, step[2][a]) \subseteq Range(Split(frame[2][a]))

\* The steps before the last found among the ancestors, outward from
\* position i, passing over ancestors that fail the step.
RECURSIVE Outward(_, _, _, _)
Outward(impl, path, steps, i) ==
    IF steps = <<>> THEN TRUE
    ELSE IF i = 0 THEN FALSE
    ELSE IF ExactStepOf(impl, path[i], Top(steps))
    THEN Outward(impl, path, Front(steps), i - 1)
    ELSE Outward(impl, path, steps, i - 1)

SkipMatch(impl, path, sig) ==
    /\ ExactStepOf(impl, Top(path), Top(sig))
    /\ Outward(impl, path, Front(sig), Len(path) - 1)

AdjacentMatch(impl, path, sig) ==
    /\ Len(path) >= Len(sig)
    /\ \A i \in 1..Len(sig) : ExactStepOf(impl, path[Len(path) - Len(sig) + i], sig[i])

\* C9 as stated: a signature is satisfied whenever its last step matches
\* the innermost element and its earlier steps match ancestors in order,
\* ancestors that do not match being skipped.
C9_SkippingMatchSatisfies ==
    m_out # None =>
        (SkipMatch(m_in.impl, m_in.path, SigOf(m_in)) => m_out.hit)

\* C9 amended: a signature is satisfied whenever its steps match the
\* innermost open elements one for one, each earlier step the parent of the
\* element matched by the next; and on a path at least as long as the
\* signature it is satisfied only then, so a skipped ancestor fails it.
C9_AdjacentMatchSatisfies ==
    m_out # None =>
        /\ AdjacentMatch(m_in.impl, m_in.path, SigOf(m_in)) => m_out.hit
        /\ (Len(m_in.path) >= Len(SigOf(m_in)) /\ m_out.hit) =>
              AdjacentMatch(m_in.impl, m_in.path, SigOf(m_in))

\* A path whose steps are found only by skipping an ancestor is rejected.
C9_Witness ==
    /\ m_out # None
    /\ m_in.impl = "scraper"
    /\ m_in.thing = "title"
    /\ SkipMatch(m_in.impl, m_in.path, SigOf(m_in))
    /\ ~AdjacentMatch(m_in.impl, m_in.path, SigOf(m_in))
    /\ ~m_out.hit

\* C10 as stated: a frame matches a step iff the names are equal and every
\* required attribute is present with a value that equals the requirement
\* or whose whitespace-separated tokens contain it.
C10_StepMatchesByToken ==
    m_out # None =>
        \A i \in 1..Len(SigOf(m_in)) :
            m_out.steps[i] = TokenStepOf(m_in.impl, Top(m_in.path), SigOf(m_in)[i])

\* C10 amended: a frame matches a step iff the names are equal and every
\* required attribute is present with exactly the required value (the same
\* string in HTMLTrackParser, the same token list in TrackListScraper);
\* a missing attribute gives false.
C10_StepMatchesExactly ==
    m_out # None =>
        \A i \in 1..Len(SigOf(m_in)) :
            /\ m_out.steps[i] \in BOOLEAN
            /\ m_out.steps[i] = ExactStepOf(m_in.impl, Top(m_in.path), SigOf(m_in)[i])

\* A class of two tokens does not pass a step that requires one of them.
C10_Witness ==
    /\ m_out # None
    /\ m_in.thing = "title"
    /\ Top(m_in.path) = <<"div", Class("item-subject extra")>>
    /\ ~m_out.steps[1]

----------------------------------------------------------------------------
(* The claims about the functions around the extractors.                   *)

\* C11: scrape_week_tracks requests the pages 1, 2, 3, ... in order, requests
\* no page after the first page that added no record, and ends its loop only
\* after a page that added no record: no page count ends it.
C11_StopsOnlyAtEmptyPage ==
    /\ requested = [j \in 1..Len(requested) |-> j]
    /\ \A j \in 1..(Len(added) - 1) : added[j] > 0
    /\ wk \in {"break", "returned"} => (Len(added) > 0 /\ Top(added) = 0)

\* The description fetch of record k fails: the request raises, or the page
\* has no description.
FetchFails(k) == site[k].kind # "ok"

\* C12: in scrape_track_descriptions and in download_tracks the failure of
\* one record's description fetch does not abort the batch: the function
\* does not raise, every record is taken up, and the record whose fetch
\* failed has no description field.
C12_FailureDoesNotAbortBatch ==
    /\ bpc # "raised"
    /\ bpc = "returned" =>
          \A k \in 1..Len(caller_tracks) :
              /\ k \in handled
              /\ FetchFails(k) => "description" \notin DOMAIN caller_tracks[k]

\* C13: when scrape_track_descriptions returns in the parallel mode, every
\* record of the caller's list whose description fetch succeeded carries its
\* description, as after the sequential mode.
C13_ParallelWritesCallerRecords ==
    (batch = "parallel" /\ bpc = "returned") =>
        \A k \in 1..Len(caller_tracks) :
            site[k].kind = "ok" =>
                /\ "description" \in DOMAIN caller_tracks[k]
                /\ caller_tracks[k]["description"] = Normalize(site[k].content)

\* The field's signature matches no descendant of the k-th track element.
NoLocation(k, thing) == find_all(Descendants(contents[k]), bs_signatures[thing]) = <<>>

\* C15: a field whose signature matches no location within a record does
\* not make the extraction fail: feed returns, the record of every track
\* element is emitted, in order, and it lacks exactly the fields that have
\* no location.
C15_MissingFieldIsNotFatal ==
    /\ fpc # "raised"
    /\ \A k \in 1..Len(scraper_tracks) :
          \A thing \in Range(BSSignatureNames) :
              (thing \in DOMAIN scraper_tracks[k]) = ~NoLocation(k, thing)
    /\ fpc = "returned" => Len(scraper_tracks) = Len(contents)

\* The weeks that occur in a track list.
WeeksIn(a) == { a[k]["week"] : k \in { j \in 1..Len(a) : "week" \in DOMAIN a[j] } }

\* The comment count a list has for a week: that of its record of the week,
\* the last one when the list has several.
CountIn(a, w) ==
    LET last == CHOOSE k \in 1..Len(a) :
                    /\ "week" \in DOMAIN a[k] /\ a[k]["week"] = w
                    /\ \A j \in (k + 1)..Len(a) : "week" \in DOMAIN a[j] => a[j]["week"] # w
    IN  a[last]["comments"]

\* C18: whenever check_new_comments returns, its result has week w if and
\* only if w occurs in both lists with comment counts that differ, and the
\* value for w is the current count minus the recorded count; a week of only
\* one list is not in the result.
C18_NewCommentsByWeek ==
    (new_comments # None /\ new_comments.err = "none") =>
        /\ DOMAIN new_comments.value \subseteq WeeksIn(loads.tracks) \cap WeeksIn(loads.record)
        /\ \A w \in WeeksIn(loads.tracks) \cap WeeksIn(loads.record) :
              /\ (w \in DOMAIN new_comments.value) =
                    (CountIn(loads.tracks, w) # CountIn(loads.record, w))
              /\ w \in DOMAIN new_comments.value =>
                    new_comments.value[w] = CountIn(loads.tracks, w) - CountIn(loads.record, w)

\* Week 1 lost two comments, week 2 is new in the current list, and week 2's
\* count is not compared.
C18_Witness ==
    /\ new_comments # None
    /\ new_comments.err = "none"
    /\ WeeksIn(loads.tracks) = {1, 2}
    /\ WeeksIn(loads.record) = {1}
    /\ new_comments.value = (1 :> (0 - 2))

====
